---- MODULE Spec2Model ----
(***************************************************************************)
(* Model of the two Polymarket extraction scripts:                         *)
(*   get_market_ids_json.py          (market listing, prog = "listing")    *)
(*   get_top_holders_details_json.py (holder report,  prog = "holders")    *)
(* JSON values are tagged records; Python exceptions are "raised" values.  *)
(***************************************************************************)
EXTENDS Integers, Sequences, FiniteSets, TLC

VARIABLES
    prog,                     \* which function runs: listing, holders, page, profile
    pc,                       \* position inside the running function
    page,                     \* content of the rendered page (the __NEXT_DATA__ blob)
    market_index,             \* argument of process_market_holders_with_focused_stats
    max_holders_per_side,     \* argument of process_market_holders_with_focused_stats
    p_context,                \* Playwright context: none, started, stopped
    browser,                  \* browser: none, open, closed
    markets_list,             \* value returned by get_market_data_from_page
    result,                   \* value returned by the running function
    final_output,             \* report under construction
    raw_api_holder_data,      \* response of the holders call
    outcome_index,            \* side being processed
    outcome_specific_holders, \* bucket selected for the side
    i,                        \* enumerate() index of the inner loop (0-based)
    processed_count,          \* holders appended for the side
    calls,                    \* log of holders requests, aggregations and sleeps
    exc,                      \* exception that ended the run, if any
    volume_data,              \* response of the volume call
    profit_data,              \* response of the profit call
    positions_data,           \* response of the positions call
    target_condition_id,      \* aggregation target market
    target_outcome_index      \* aggregation target side

vars == <<prog, pc, page, market_index, max_holders_per_side, p_context, browser,
          markets_list, result, final_output, raw_api_holder_data, outcome_index,
          outcome_specific_holders, i, processed_count, calls, exc,
          volume_data, profit_data, positions_data, target_condition_id,
          target_outcome_index>>

(***************************************************************************)
(* Bounds of the model                                                     *)
(***************************************************************************)
MaxQueries == 2
MaxMarkets == 2
MaxRunMarkets == 2
MaxBuckets == 2
MaxBucket == 2
MaxK == 2
MaxPositions == 2

(***************************************************************************)
(* JSON and Python values                                                  *)
(***************************************************************************)
\* Python None; also what dict.get gives for a missing key.
None == [t |-> "none"]
\* The {} default of dict.get(key, {}).
EmptyDict == [t |-> "emptydict"]
\* A JSON decimal number, held in hundredths (Num(65) is 0.65).
Num(h) == [t |-> "num", v |-> h]
\* A JSON integer.
IntVal(n) == [t |-> "int", n |-> n]
Str(s) == [t |-> "str", s |-> s]
Bool(b) == [t |-> "bool", b |-> b]
List(q) == [t |-> "list", items |-> q]
\* An exception propagating out of an expression.
Raised(e) == [t |-> "raised", e |-> e]
\* A JSON value that is not a mapping, standing where a mapping is expected.
Junk == Str("junk")

IsDict(x) == x.t \in {"map", "emptydict"}
IsList(x) == x.t = "list"
IsRaised(x) == x.t = "raised"

\* Python truth value of a JSON value (a "map" carries at least one key).
Truthy(x) ==
    CASE x.t = "none" -> FALSE
      [] x.t = "emptydict" -> FALSE
      [] x.t = "num" -> x.v # 0
      [] x.t = "int" -> x.n # 0
      [] x.t = "str" -> x.s # ""
      [] x.t = "bool" -> x.b
      [] x.t = "list" -> Len(x.items) > 0
      [] OTHER -> TRUE

SeqUpTo(S, n) == UNION {[1..k -> S] : k \in 0..n}

(***************************************************************************)
(* Page state                                                              *)
(***************************************************************************)
Query(key, state) == [t |-> "map", queryKey |-> key, state |-> state]
State(data) == [t |-> "map", data |-> data]
Market(cid, git, q, prices, mk) ==
    [t |-> "map", conditionId |-> cid, groupItemTitle |-> git, question |-> q,
     outcomePrices |-> prices, markets |-> mk]
Page(queries) == [t |-> "page", queries |-> queries]
\* The script tag is missing, times out or holds invalid JSON.
Unreadable == [t |-> "unreadable"]

RecognizedKeys == {Str("/api/event/slug"), Str("/api/market")}

\* query.get("queryKey", [""])[0]
QueryKey(query) ==
    IF query.t # "map" THEN Raised("AttributeError")
    ELSE LET k == IF query.queryKey = None THEN List(<<Str("")>>) ELSE query.queryKey
         IN  IF Len(k.items) = 0 THEN Raised("IndexError") ELSE k.items[1]

\* The scan loop: the state of the first entry with a recognized key, None when
\* the loop ends without a match, Raised when evaluating an entry's key raises.
RECURSIVE ScanQueries(_, _)
ScanQueries(qs, n) ==
    IF n > Len(qs) THEN None
    ELSE LET k == QueryKey(qs[n])
         IN  IF IsRaised(k) THEN k
             ELSE IF k \in RecognizedKeys
                  THEN (IF qs[n].state = None THEN EmptyDict ELSE qs[n].state)
                  ELSE ScanQueries(qs, n + 1)

\* event_query_state.get("data", {})
DataContainer(st) == IF st.data = None THEN EmptyDict ELSE st.data

\* Mutant: the conditionId fallback is taken only when markets is missing.
MarketsDataMissingOnly(dc) ==
    IF IsDict(dc)
    THEN LET md == IF dc.t = "map" THEN dc.markets ELSE None
             hasCid == dc.t = "map" /\ dc.conditionId # None
         IN  IF md = None /\ hasCid THEN List(<<dc>>) ELSE md
    ELSE IF IsList(dc) THEN dc
    ELSE None

\* The shape dispatch on the data payload.
MarketsData(dc) ==
    IF IsDict(dc)
    THEN LET md == IF dc.t = "map" THEN dc.markets ELSE None
             hasCid == dc.t = "map" /\ dc.conditionId # None
         IN  IF ~Truthy(md) /\ hasCid THEN List(<<dc>>) ELSE md
    ELSE IF IsList(dc) THEN dc
    ELSE None

\* The final check and return.
CheckedMarkets(md) == IF ~Truthy(md) \/ ~IsList(md) THEN None ELSE md

GetMarketDataFromPage(pg) ==
    IF pg = Unreadable THEN None
    ELSE LET qs == IF pg.queries = None THEN List(<<>>) ELSE pg.queries
         IN  IF ~(Truthy(qs) /\ IsList(qs)) THEN CheckedMarkets(None)
             ELSE LET st == ScanQueries(qs.items, 1)
                  IN  IF IsRaised(st) THEN None
                      ELSE IF Truthy(st) THEN CheckedMarkets(MarketsData(DataContainer(st)))
                      ELSE CheckedMarkets(None)

(***************************************************************************)
(* Inputs of the page resolver                                             *)
(***************************************************************************)
StubMarket(c) == Market(Str(c), None, None, None, None)
StubLists == {List(<<>>), List(<<StubMarket("0xB")>>)}
Payloads ==
    {None, Junk} \cup StubLists
    \cup {Market(cid, None, None, None, mk) :
            cid \in {None, Str("0xA")}, mk \in {None, Junk} \cup StubLists}
States == {None} \cup {State(d) : d \in Payloads}
UsableState == State(Market(None, None, None, None, List(<<StubMarket("0xC")>>)))
QueryEntries ==
    {Query(List(<<k>>), s) : k \in RecognizedKeys, s \in States}
    \cup {Query(List(<<Str("/api/other")>>), UsableState),
          Query(None, UsableState),
          Query(List(<<>>), UsableState)}
ResolverPages ==
    {Unreadable, Page(None)}
    \cup {Page(List(qs)) : qs \in SeqUpTo(QueryEntries, MaxQueries)}

(***************************************************************************)
(* Number parsing and formatting                                           *)
(***************************************************************************)
\* float(x) in hundredths: the strings the inputs use are parsed by table; any
\* other string is not a number.
Float(x) ==
    CASE x.t = "num" -> x
      [] x.t = "int" -> Num(100 * x.n)
      [] x.t = "bool" -> Num(IF x.b THEN 100 ELSE 0)
      [] x.t = "str" ->
            (CASE x.s = "0.65" -> Num(65)
               [] x.s = "0.35" -> Num(35)
               [] x.s = "5" -> Num(500)
               [] OTHER -> Raised("ValueError"))
      [] OTHER -> Raised("TypeError")

\* str(x) and the {x} of an f-string.
PyStr(x) ==
    CASE x.t = "str" -> x.s
      [] x.t = "none" -> "None"
      [] x.t = "int" -> ToString(x.n)
      [] x.t = "bool" -> (IF x.b THEN "True" ELSE "False")
      [] OTHER -> "?"

TwoDigits(n) == IF n < 10 THEN "0" \o ToString(n) ELSE ToString(n)
\* f"{x*100:.1f}%" for a price x given in hundredths.
Percent(f) == Str(ToString(f.v) \o ".0%")
\* f"${x:,.2f}" for an amount below 1000 given in hundredths.
Money(f) == Str("$" \o ToString(f.v \div 100) \o "." \o TwoDigits(f.v % 100))
\* title.strip()
Strip(title) ==
    IF title.t # "str" THEN Raised("AttributeError")
    ELSE IF title.s = " G " THEN Str("G") ELSE title

(***************************************************************************)
(* Market normalisation (listing) and market summary (holder report)       *)
(***************************************************************************)
\* groupItemTitle or question, with the "Market {index}" default.
MarketTitle(market, index) ==
    IF Truthy(market.groupItemTitle) THEN market.groupItemTitle
    ELSE IF market.question = None THEN Str("Market " \o ToString(index))
    ELSE market.question

\* One try/except of the listing: the percentage, or Error(raw) for the
\* exceptions the handler names.
ListingPrice(price) ==
    LET f == Float(price)
    IN  IF ~IsRaised(f) THEN Percent(f)
        ELSE IF f.e \in {"ValueError", "TypeError", "IndexError"}
             THEN Str("Error(" \o PyStr(price) \o ")")
             ELSE f

\* Mutant: one try block around both prices, so one bad price marks both.
ListingOddsOneTry(outcome_prices) ==
    IF IsList(outcome_prices) /\ Len(outcome_prices.items) >= 2
    THEN (IF IsRaised(Float(outcome_prices.items[1])) \/ IsRaised(Float(outcome_prices.items[2]))
          THEN [yes |-> Str("Error(" \o PyStr(outcome_prices.items[1]) \o ")"),
                no |-> Str("Error(" \o PyStr(outcome_prices.items[2]) \o ")")]
          ELSE [yes |-> Percent(Float(outcome_prices.items[1])),
                no |-> Percent(Float(outcome_prices.items[2]))])
    ELSE [yes |-> Str("N/A"), no |-> Str("N/A")]

\* yes_price_str and no_price_str of the listing.
ListingOdds(outcome_prices) ==
    IF IsList(outcome_prices) /\ Len(outcome_prices.items) >= 2
    THEN [yes |-> ListingPrice(outcome_prices.items[1]),
          no |-> ListingPrice(outcome_prices.items[2])]
    ELSE [yes |-> Str("N/A"), no |-> Str("N/A")]

Skipped == [t |-> "skipped"]

\* Mutant: the record is appended without the conditionId and title check.
NormalizeMarketNoSkip(market, index) ==
    IF market.t # "map" THEN Raised("AttributeError")
    ELSE LET odds == ListingOdds(market.outcomePrices)
         IN  [t |-> "map", index |-> index, title |-> MarketTitle(market, index),
              conditionId |-> market.conditionId,
              yes_odds |-> odds.yes, no_odds |-> odds.no]

\* One iteration of the loop: a record, Skipped (the WARN branch) or Raised.
NormalizeMarket(market, index) ==
    IF market.t # "map" THEN Raised("AttributeError")
    ELSE LET condition_id == market.conditionId
             title == MarketTitle(market, index)
             odds == ListingOdds(market.outcomePrices)
         IN  IF IsRaised(odds.yes) THEN odds.yes
             ELSE IF IsRaised(odds.no) THEN odds.no
             ELSE IF Truthy(condition_id) /\ Truthy(title)
                  THEN (IF IsRaised(Strip(title)) THEN Strip(title)
                        ELSE [t |-> "map", index |-> index, title |-> Strip(title),
                              conditionId |-> condition_id,
                              yes_odds |-> odds.yes, no_odds |-> odds.no])
                  ELSE Skipped

\* The whole loop over markets_list from position n: List(records) or Raised.
RECURSIVE NormalizeFrom(_, _, _)
NormalizeFrom(ms, n, acc) ==
    IF n > Len(ms) THEN List(acc)
    ELSE LET r == NormalizeMarket(ms[n], n - 1)
         IN  IF IsRaised(r) THEN r
             ELSE NormalizeFrom(ms, n + 1, IF r = Skipped THEN acc ELSE Append(acc, r))

\* One bare try/except of the holder report: the percentage, or str(raw).
SummaryPrice(price) ==
    LET f == Float(price)
    IN  IF IsRaised(f) THEN Str(PyStr(price)) ELSE Percent(f)

SummaryOdds(outcome_prices) ==
    IF IsList(outcome_prices) /\ Len(outcome_prices.items) >= 2
    THEN [yes |-> SummaryPrice(outcome_prices.items[1]),
          no |-> SummaryPrice(outcome_prices.items[2])]
    ELSE [yes |-> Str("N/A"), no |-> Str("N/A")]

\* 0 <= market_index < len(markets_list)
IndexInBounds(index, n) == 0 <= index /\ index < n

\* Step 1 after the page is read: the market_info record, or Raised.
SelectMarket(ml, index) ==
    IF ~Truthy(ml) THEN Raised("Exception: Failed to extract market list.")
    ELSE IF ~IndexInBounds(index, Len(ml.items)) THEN Raised("ValueError: Invalid market index")
    ELSE LET target_market == ml.items[index + 1]
         IN  IF target_market.t # "map" THEN Raised("AttributeError")
             ELSE IF ~Truthy(target_market.conditionId)
                  THEN Raised("Exception: Could not determine target conditionId.")
             ELSE LET odds == SummaryOdds(target_market.outcomePrices)
                  IN  [t |-> "map", title |-> MarketTitle(target_market, index),
                       index |-> index, conditionId |-> target_market.conditionId,
                       current_yes_odds |-> odds.yes, current_no_odds |-> odds.no]

(***************************************************************************)
(* Per-holder aggregation                                                  *)
(***************************************************************************)
Amount(a) == [t |-> "map", amount |-> a]
Position(cid, oi, cv, size) ==
    [t |-> "map", conditionId |-> cid, outcomeIndex |-> oi, currentValue |-> cv,
     size |-> size, avgPrice |-> Num(50), curPrice |-> Num(60), cashPnl |-> None]
Holder(wallet, oi) ==
    [t |-> "map", proxyWallet |-> wallet, outcomeIndex |-> oi, name |-> None]
Bucket(holders) == [t |-> "map", holders |-> holders]

\* The volume block and the profit block: "Error" unless the response is a
\* non-empty list, then the formatted amount of its first element.
AmountField(data) ==
    IF Truthy(data) /\ IsList(data) /\ Len(data.items) > 0
    THEN LET first == data.items[1]
         IN  IF first.t # "map" THEN Raised("AttributeError")
             ELSE LET amount == IF first.amount = None THEN Num(0) ELSE first.amount
                      f == Float(amount)
                  IN  IF IsRaised(f) THEN Str("Error (" \o PyStr(amount) \o ")")
                      ELSE Money(f)
    ELSE Str("Error")

\* isinstance(current_val, (int, float)): bool is a subclass of int.
IsIntOrFloat(x) == x.t \in {"num", "int", "bool"}

\* calculate_positions_value on a list: the total in hundredths, or Raised.
RECURSIVE PositionsValueFrom(_, _, _)
PositionsValueFrom(ps, n, total) ==
    IF n > Len(ps) THEN Num(total)
    ELSE IF ps[n].t # "map" THEN Raised("AttributeError")
    ELSE LET current_val == IF ps[n].currentValue = None THEN Num(0)
                            ELSE ps[n].currentValue
         IN  PositionsValueFrom(ps, n + 1,
                 IF IsIntOrFloat(current_val) THEN total + Float(current_val).v
                 ELSE total)

CalculatePositionsValue(data) ==
    IF IsList(data) THEN PositionsValueFrom(data.items, 1, 0) ELSE Num(0)

\* f"{float(size):,.0f}" for whole sizes below 1000, str(size) on failure.
SizeFmt(pos) ==
    LET raw == IF pos.size = None THEN IntVal(0) ELSE pos.size
        f == Float(raw)
    IN  IF IsRaised(f) THEN Str(PyStr(raw)) ELSE Str(ToString(f.v \div 100))

\* f"{float(x*100):.1f}c": a string times 100 is no number, so str(x) then.
CentsFmt(x) ==
    IF x = None THEN Str("0.0c")
    ELSE IF x.t \in {"num", "int", "bool"} THEN Str(ToString(Float(x).v) \o ".0c")
    ELSE Str(PyStr(x))

PnlFmt(pos) ==
    LET raw == IF pos.cashPnl = None THEN IntVal(0) ELSE pos.cashPnl
        f == Float(raw)
    IN  IF IsRaised(f) THEN Str(PyStr(raw)) ELSE Money(f)

PositionDetails(pos) ==
    [t |-> "map", shares_in_position |-> SizeFmt(pos),
     avg_price |-> CentsFmt(pos.avgPrice),
     current_price |-> CentsFmt(pos.curPrice),
     position_pnl |-> PnlFmt(pos)]

\* The scan for the target position: the details of the first match, else None.
RECURSIVE TargetFrom(_, _, _, _)
TargetFrom(ps, n, cid, oi) ==
    IF n > Len(ps) THEN None
    ELSE IF ps[n].t # "map" THEN Raised("AttributeError")
    ELSE IF ps[n].conditionId = cid /\ ps[n].outcomeIndex = IntVal(oi)
         THEN PositionDetails(ps[n])
         ELSE TargetFrom(ps, n + 1, cid, oi)

\* get_profile_and_specific_position_data: the results mapping, or Raised.
GetProfile(vol, pnl, pos, cid, oi) ==
    LET v == AmountField(vol)
        p == AmountField(pnl)
    IN  IF IsRaised(v) THEN v
        ELSE IF IsRaised(p) THEN p
        ELSE IF pos # None /\ IsList(pos)
             THEN LET total == CalculatePositionsValue(pos)
                  IN  IF IsRaised(total) THEN total
                      ELSE LET target == TargetFrom(pos.items, 1, cid, oi)
                           IN  [t |-> "map", volume |-> v, pnl |-> p,
                                portfolio |-> Money(total),
                                target |-> IF Truthy(target) THEN target
                                           ELSE Str("Not Found")]
             ELSE [t |-> "map", volume |-> v, pnl |-> p,
                   portfolio |-> Str("Error"), target |-> Str("Not Found")]

(***************************************************************************)
(* Holder buckets                                                          *)
(***************************************************************************)
\* The bucket scan of one side: the holders list of the first bucket whose
\* leading holder has the side's outcomeIndex, None when there is none.
RECURSIVE FindBucket(_, _, _)
FindBucket(buckets, n, oi) ==
    IF n > Len(buckets) THEN None
    ELSE IF buckets[n].t # "map" THEN Raised("AttributeError")
    ELSE LET current_holders_list == buckets[n].holders
         IN  IF Truthy(current_holders_list) /\ Len(current_holders_list.items) > 0
             THEN (IF current_holders_list.items[1].t # "map" THEN Raised("AttributeError")
                   ELSE IF current_holders_list.items[1].outcomeIndex = IntVal(oi)
                        THEN current_holders_list
                        ELSE FindBucket(buckets, n + 1, oi))
             ELSE FindBucket(buckets, n + 1, oi)

\* holder_address[:10] for the addresses the inputs use.
Prefix10(address) == IF address = "0xaaaaaaaaaaaa" THEN "0xaaaaaaaa" ELSE address

\* holder.get("name", holder_address[:10] + "...")
HolderName(holder) ==
    IF holder.name = None THEN Str(Prefix10(holder.proxyWallet.s) \o "...")
    ELSE holder.name

\* Mutant: the rank is the 0-based loop index.
ReportEntryRankFromZero(index, holder, profile) ==
    [rank |-> index, name |-> HolderName(holder), address |-> holder.proxyWallet,
     overall_volume |-> profile.volume, overall_pnl |-> profile.pnl,
     total_portfolio_value |-> profile.portfolio,
     target_market_position |-> profile.target]

\* The record appended to the side's list.
ReportEntry(index, holder, profile) ==
    [rank |-> index + 1, name |-> HolderName(holder), address |-> holder.proxyWallet,
     overall_volume |-> profile.volume, overall_pnl |-> profile.pnl,
     total_portfolio_value |-> profile.portfolio,
     target_market_position |-> profile.target]

\* The holders request's limit.
HoldersLimit(k) == k * 2 + 10

\* Mutant: no sleep after the first holder of a bucket.
HolderCallsNoFirstSleep(index) ==
    IF index = 0 THEN <<[ev |-> "agg", n |-> index + 1]>>
    ELSE <<[ev |-> "agg", n |-> index + 1], [ev |-> "sleep", n |-> 1]>>

\* The calls the iteration of one appended holder makes, in order.
HolderCalls(index) == <<[ev |-> "agg", n |-> index + 1], [ev |-> "sleep", n |-> 1]>>

\* Mutant: the except clause does not close the browser.
HandlerBrowserLeavesOpen(p, b) == b

\* The except clause: what it does to the browser and to the context.
HandlerBrowser(p, b) == IF p # "none" /\ b = "open" THEN "closed" ELSE b
HandlerContext(p) == IF p # "none" THEN "stopped" ELSE p

(***************************************************************************)
(* Inputs of the two programs                                              *)
(***************************************************************************)
EventPage(ms) ==
    Page(List(<<Query(List(<<Str("/api/event/slug")>>),
                      State(Market(None, None, None, None, List(ms))))>>))

\* Pages of the full runs: markets with or without a conditionId.
RunMarkets == {StubMarket("0xA"), Market(None, None, None, None, None)}
RunPages == {Unreadable} \cup {EventPage(ms) : ms \in SeqUpTo(RunMarkets, MaxRunMarkets)}

\* Pages of the market runs: entries that differ in identifier and title, and
\* entries that differ in identifier and prices.
Prices == {Str("0.65"), Str("abc")}
PriceLists == {List(<<Str("0.65")>>)} \cup {List(<<a, b>>) : a \in Prices, b \in Prices}
Titles == {<<None, None>>, <<None, Str("")>>, <<Str(" G "), None>>}
ConditionIds == {None, Str("0xA")}
FineMarkets ==
    {Junk}
    \cup {Market(cid, tt[1], tt[2], None, None) : cid \in ConditionIds, tt \in Titles}
    \cup {Market(cid, None, None, pr, None) : cid \in ConditionIds, pr \in PriceLists}
FinePages == {EventPage(ms) : ms \in SeqUpTo(FineMarkets, MaxMarkets)}

Wallets == {None, Str("0xaaaaaaaaaaaa")}
HolderKinds == {Holder(w, IntVal(o)) : w \in Wallets, o \in {0, 1}}
BucketKinds ==
    {Junk, Bucket(None)}
    \cup {Bucket(List(hs)) : hs \in SeqUpTo(HolderKinds, MaxBucket)}
HolderResponses == {None, Junk} \cup {List(bs) : bs \in SeqUpTo(BucketKinds, MaxBuckets)}

\* Responses of the three per-holder calls in the full runs: all three good,
\* each one failed in turn, and a list whose first element is no mapping.
OkAmount == List(<<Amount(Num(500))>>)
OkPositions == List(<<Position(Str("0xA"), IntVal(0), Num(250), IntVal(7))>>)
RunResponses ==
    {[vol |-> OkAmount, pnl |-> OkAmount, pos |-> OkPositions],
     [vol |-> None, pnl |-> OkAmount, pos |-> OkPositions],
     [vol |-> OkAmount, pnl |-> None, pos |-> OkPositions],
     [vol |-> OkAmount, pnl |-> OkAmount, pos |-> None],
     [vol |-> List(<<Junk>>), pnl |-> OkAmount, pos |-> OkPositions]}

(***************************************************************************)
(* Initial values shared by the specifications                             *)
(***************************************************************************)
Idle ==
    /\ market_index = 0
    /\ max_holders_per_side = 1
    /\ p_context = "none"
    /\ browser = "none"
    /\ markets_list = None
    /\ result = None
    /\ final_output = None
    /\ raw_api_holder_data = None
    /\ outcome_index = 0
    /\ outcome_specific_holders = <<>>
    /\ i = 0
    /\ processed_count = 0
    /\ calls = <<>>
    /\ exc = None
    /\ volume_data = None
    /\ profit_data = None
    /\ positions_data = None
    /\ target_condition_id = None
    /\ target_outcome_index = 0

(***************************************************************************)
(* SpecPage: get_market_data_from_page applied to a page state             *)
(***************************************************************************)
InitPage ==
    /\ prog = "page"
    /\ pc = "start"
    /\ page \in ResolverPages
    /\ Idle

ResolvePage ==
    /\ prog = "page"
    /\ pc = "start"
    /\ markets_list' = GetMarketDataFromPage(page)
    /\ pc' = "done"
    /\ UNCHANGED <<prog, page, market_index, max_holders_per_side, p_context, browser,
                   result, final_output, raw_api_holder_data, outcome_index,
                   outcome_specific_holders, i, processed_count, calls, exc,
                   volume_data, profit_data, positions_data, target_condition_id,
                   target_outcome_index>>

NextPage == ResolvePage

SpecPage == InitPage /\ [][NextPage]_vars

(***************************************************************************)
(* The two programs                                                        *)
(***************************************************************************)
runVars == <<final_output, raw_api_holder_data, outcome_index,
             outcome_specific_holders, i, processed_count, calls>>
profileVars == <<volume_data, profit_data, positions_data, target_outcome_index>>
inputVars == <<prog, page, market_index, max_holders_per_side>>

Running == prog \in {"listing", "holders"}

\* Mutant: the except clause returns what was assembled so far.
RaiseReturnsPartial(e) ==
    /\ exc' = e
    /\ browser' = HandlerBrowser(p_context, browser)
    /\ p_context' = HandlerContext(p_context)
    /\ result' = final_output
    /\ pc' = "done"

\* An exception reaches the except clause, which releases and returns None.
Raise(e) ==
    /\ exc' = e
    /\ browser' = HandlerBrowser(p_context, browser)
    /\ p_context' = HandlerContext(p_context)
    /\ result' = None
    /\ pc' = "done"

\* sync_playwright().start()
StartPlaywright ==
    /\ Running /\ pc = "start"
    /\ \/ /\ p_context' = "started"
          /\ pc' = "launch"
          /\ UNCHANGED <<browser, result, exc>>
       \/ Raise(Raised("Error: start"))
    /\ UNCHANGED <<inputVars, markets_list, runVars, profileVars, target_condition_id>>

\* p_context.chromium.launch(...)
LaunchBrowser ==
    /\ Running /\ pc = "launch"
    /\ \/ /\ browser' = "open"
          /\ pc' = "new_page"
          /\ UNCHANGED <<p_context, result, exc>>
       \/ Raise(Raised("Error: launch"))
    /\ UNCHANGED <<inputVars, markets_list, runVars, profileVars, target_condition_id>>

\* browser.new_page() and the timeouts
NewPage ==
    /\ Running /\ pc = "new_page"
    /\ \/ /\ pc' = "goto"
          /\ UNCHANGED <<p_context, browser, result, exc>>
       \/ Raise(Raised("Error: new_page"))
    /\ UNCHANGED <<inputVars, markets_list, runVars, profileVars, target_condition_id>>

\* page.goto(url, wait_until='domcontentloaded')
Goto ==
    /\ Running /\ pc = "goto"
    /\ \/ /\ pc' = "extract"
          /\ UNCHANGED <<p_context, browser, result, exc>>
       \/ Raise(Raised("TimeoutError: goto"))
    /\ UNCHANGED <<inputVars, markets_list, runVars, profileVars, target_condition_id>>

\* markets_list = get_market_data_from_page(page)
ExtractMarkets ==
    /\ Running /\ pc = "extract"
    /\ markets_list' = GetMarketDataFromPage(page)
    /\ pc' = "close"
    /\ UNCHANGED <<inputVars, p_context, browser, result, exc, runVars, profileVars,
                   target_condition_id>>

\* browser.close(); p_context.stop()
CloseBrowser ==
    /\ Running /\ pc = "close"
    /\ browser' = "closed"
    /\ p_context' = "stopped"
    /\ pc' = IF prog = "listing" THEN "normalize" ELSE "select"
    /\ UNCHANGED <<inputVars, markets_list, result, exc, runVars, profileVars,
                   target_condition_id>>

\* extract_market_info_with_odds after the browser is closed: the early
\* return, the loop, the empty-result return and the final return.
ListingNormalize ==
    /\ prog = "listing" /\ pc = "normalize"
    /\ IF ~Truthy(markets_list)
       THEN /\ result' = None
            /\ pc' = "done"
            /\ UNCHANGED <<p_context, browser, exc>>
       ELSE LET r == NormalizeFrom(markets_list.items, 1, <<>>)
            IN  IF IsRaised(r) THEN Raise(r)
                ELSE /\ result' = IF Len(r.items) = 0 THEN None ELSE r
                     /\ pc' = "done"
                     /\ UNCHANGED <<p_context, browser, exc>>
    /\ UNCHANGED <<inputVars, markets_list, runVars, profileVars, target_condition_id>>

\* Step 1 of the holder report after the browser is closed, up to market_info.
HoldersSelect ==
    /\ prog = "holders" /\ pc = "select"
    /\ LET info == SelectMarket(markets_list, market_index)
       IN  IF IsRaised(info)
           THEN /\ Raise(info)
                /\ UNCHANGED <<final_output, target_condition_id>>
           ELSE /\ final_output' = [market_info |-> info, holders |-> None]
                /\ target_condition_id' = info.conditionId
                /\ pc' = "holders_call"
                /\ UNCHANGED <<p_context, browser, result, exc>>
    /\ UNCHANGED <<inputVars, markets_list, raw_api_holder_data, outcome_index,
                   outcome_specific_holders, i, processed_count, calls, profileVars>>

\* Step 2: the holders request and the checks of its response.
FetchHolders ==
    /\ prog = "holders" /\ pc = "holders_call"
    /\ calls' = Append(calls, [ev |-> "holders", n |-> HoldersLimit(max_holders_per_side)])
    /\ \E response \in HolderResponses :
          /\ raw_api_holder_data' = response
          /\ IF response = None
             THEN /\ Raise(Raised("Exception: Failed to get holder list from API."))
                  /\ UNCHANGED <<final_output, outcome_index>>
             ELSE IF ~IsList(response)
             THEN /\ Raise(Raised("TypeError: API holder response not a list."))
                  /\ UNCHANGED <<final_output, outcome_index>>
             ELSE /\ final_output' = [final_output EXCEPT !.holders = [Yes |-> <<>>, No |-> <<>>]]
                  /\ outcome_index' = 0
                  /\ pc' = "side"
                  /\ UNCHANGED <<p_context, browser, result, exc>>
    /\ UNCHANGED <<inputVars, markets_list, outcome_specific_holders, i, processed_count,
                   profileVars, target_condition_id>>

\* The head of the outer loop: the bucket of the side.
SelectSide ==
    /\ prog = "holders" /\ pc = "side" /\ outcome_index \in {0, 1}
    /\ LET found == FindBucket(raw_api_holder_data.items, 1, outcome_index)
       IN  IF IsRaised(found)
           THEN /\ Raise(found)
                /\ UNCHANGED <<outcome_index, outcome_specific_holders, i, processed_count>>
           ELSE /\ processed_count' = 0
                /\ i' = 0
                /\ IF found = None
                   THEN /\ outcome_specific_holders' = <<>>
                        /\ outcome_index' = outcome_index + 1
                        /\ pc' = "side"
                   ELSE /\ outcome_specific_holders' = found.items
                        /\ outcome_index' = outcome_index
                        /\ pc' = "holder"
                /\ UNCHANGED <<p_context, browser, result, exc>>
    /\ UNCHANGED <<inputVars, markets_list, final_output, raw_api_holder_data, calls,
                   profileVars, target_condition_id>>

SideName(oi) == IF oi = 0 THEN "Yes" ELSE "No"

\* One iteration of the inner loop: skip a holder without an address, else
\* aggregate, append the record and sleep.
ProcessHolder ==
    /\ prog = "holders" /\ pc = "holder"
    /\ i < Len(outcome_specific_holders)
    /\ processed_count < max_holders_per_side
    /\ LET holder == outcome_specific_holders[i + 1]
       IN  IF holder.t # "map"
           THEN /\ Raise(Raised("AttributeError"))
                /\ UNCHANGED <<final_output, i, processed_count, calls>>
           ELSE IF ~Truthy(holder.proxyWallet)
           THEN /\ i' = i + 1
                /\ UNCHANGED <<pc, p_context, browser, result, exc, final_output,
                               processed_count, calls>>
           ELSE \E r \in RunResponses :
                  LET profile == GetProfile(r.vol, r.pnl, r.pos, target_condition_id,
                                            outcome_index)
                  IN  IF IsRaised(profile)
                      THEN /\ Raise(profile)
                           /\ calls' = Append(calls, [ev |-> "agg", n |-> i + 1])
                           /\ UNCHANGED <<final_output, i, processed_count>>
                      ELSE /\ final_output' =
                                [final_output EXCEPT !.holders[SideName(outcome_index)] =
                                    Append(@, ReportEntry(i, holder, profile))]
                           /\ processed_count' = processed_count + 1
                           /\ calls' = calls \o HolderCalls(i)
                           /\ i' = i + 1
                           /\ UNCHANGED <<pc, p_context, browser, result, exc>>
    /\ UNCHANGED <<inputVars, markets_list, raw_api_holder_data, outcome_index,
                   outcome_specific_holders, profileVars, target_condition_id>>

\* The inner loop ends: the list is exhausted or the break is taken.
EndSide ==
    /\ prog = "holders" /\ pc = "holder"
    /\ ~(i < Len(outcome_specific_holders) /\ processed_count < max_holders_per_side)
    /\ outcome_index' = outcome_index + 1
    /\ pc' = "side"
    /\ UNCHANGED <<inputVars, p_context, browser, markets_list, result, exc, final_output,
                   raw_api_holder_data, outcome_specific_holders, i, processed_count,
                   calls, profileVars, target_condition_id>>

\* return final_output
ReturnReport ==
    /\ prog = "holders" /\ pc = "side" /\ outcome_index = 2
    /\ result' = final_output
    /\ pc' = "done"
    /\ UNCHANGED <<inputVars, p_context, browser, markets_list, exc, runVars, profileVars,
                   target_condition_id>>

InitRun(pages, maxIndex, maxK) ==
    /\ prog \in {"listing", "holders"}
    /\ pc = "start"
    /\ page \in pages
    /\ market_index \in (IF prog = "holders" THEN -1..maxIndex ELSE {0})
    /\ max_holders_per_side \in (IF prog = "holders" THEN 1..maxK ELSE {1})
    /\ p_context = "none"
    /\ browser = "none"
    /\ markets_list = None
    /\ result = None
    /\ final_output = [market_info |-> None, holders |-> None]
    /\ raw_api_holder_data = None
    /\ outcome_index = 0
    /\ outcome_specific_holders = <<>>
    /\ i = 0
    /\ processed_count = 0
    /\ calls = <<>>
    /\ exc = None
    /\ volume_data = None
    /\ profit_data = None
    /\ positions_data = None
    /\ target_condition_id = None
    /\ target_outcome_index = 0

BrowserSteps ==
    \/ StartPlaywright
    \/ LaunchBrowser
    \/ NewPage
    \/ Goto
    \/ ExtractMarkets
    \/ CloseBrowser

\* Spec: both programs, run to their end.
Init == InitRun(RunPages, MaxRunMarkets, MaxK)

Next ==
    \/ BrowserSteps
    \/ ListingNormalize
    \/ HoldersSelect
    \/ FetchHolders
    \/ SelectSide
    \/ ProcessHolder
    \/ EndSide
    \/ ReturnReport

Spec == Init /\ [][Next]_vars

\* SpecMarkets: the listing, and the holder report up to its market summary,
\* on pages with every kind of market entry.
InitMarkets == InitRun(FinePages, MaxMarkets, 1)

NextMarkets ==
    \/ BrowserSteps
    \/ ListingNormalize
    \/ HoldersSelect

SpecMarkets == InitMarkets /\ [][NextMarkets]_vars





(***************************************************************************)
(* SpecProfile: get_profile_and_specific_position_data on the responses of *)
(* its three calls                                                         *)
(***************************************************************************)
AmountResponses ==
    {None, Junk, List(<<>>), List(<<Junk>>)}
    \cup {List(<<Amount(a)>>) : a \in {None, Num(500), Str("abc")}}
\* Positions that differ in their currentValue, and positions that differ in
\* what the target scan reads.
PositionKinds ==
    {Junk}
    \cup {Position(Str("0xB"), IntVal(0), cv, IntVal(1)) :
            cv \in {None, Num(500), Num(250), Str("5"), Bool(TRUE)}}
    \cup {Position(Str(c), IntVal(o), Num(100), IntVal(sz)) :
            c \in {"0xA", "0xB"}, o \in {0, 1}, sz \in {1, 2}}
PositionsResponses ==
    {None, Junk} \cup {List(ps) : ps \in SeqUpTo(PositionKinds, MaxPositions)}

InitProfile ==
    /\ prog = "profile"
    /\ pc = "start"
    /\ page = Unreadable
    /\ market_index = 0
    /\ max_holders_per_side = 1
    /\ p_context = "none"
    /\ browser = "none"
    /\ markets_list = None
    /\ result = None
    /\ final_output = None
    /\ raw_api_holder_data = None
    /\ outcome_index = 0
    /\ outcome_specific_holders = <<>>
    /\ i = 0
    /\ processed_count = 0
    /\ calls = <<>>
    /\ exc = None
    /\ volume_data \in AmountResponses
    /\ profit_data \in AmountResponses
    /\ positions_data \in PositionsResponses
    /\ target_condition_id = Str("0xA")
    /\ target_outcome_index \in {0, 1}

\* One call of get_profile_and_specific_position_data.
Aggregate ==
    /\ prog = "profile"
    /\ pc = "start"
    /\ result' = GetProfile(volume_data, profit_data, positions_data,
                            target_condition_id, target_outcome_index)
    /\ pc' = "done"
    /\ UNCHANGED <<inputVars, p_context, browser, markets_list, exc, runVars, profileVars,
                   target_condition_id>>

NextProfile == Aggregate

SpecProfile == InitProfile /\ [][NextProfile]_vars

(***************************************************************************)
(* Claims about get_market_data_from_page (SpecPage)                       *)
(***************************************************************************)
PageResolved == prog = "page" /\ pc = "done" /\ page # Unreadable /\ page.queries # None
PageQueries == page.queries.items

\* An entry whose first queryKey element is a recognized route.
HasRecognizedKey(q) ==
    /\ q.t = "map"
    /\ q.queryKey # None
    /\ Len(q.queryKey.items) > 0
    /\ q.queryKey.items[1] \in RecognizedKeys
\* An entry whose key cannot be read: no mapping, or an empty queryKey list.
HasUnreadableKey(q) == q.t # "map" \/ (q.queryKey # None /\ Len(q.queryKey.items) = 0)

SomeRecognized == \E n \in 1..Len(PageQueries) : HasRecognizedKey(PageQueries[n])
FirstRecognized ==
    CHOOSE n \in 1..Len(PageQueries) :
        /\ HasRecognizedKey(PageQueries[n])
        /\ \A m \in 1..(n - 1) : ~HasRecognizedKey(PageQueries[m])
UnreadableBeforeFirst ==
    \E m \in 1..(FirstRecognized - 1) : HasUnreadableKey(PageQueries[m])

\* C7: whenever the query list holds an entry with a recognized key, the
\* result is the one the first such entry gives alone: what stands before it
\* has no effect and what stands after it is not examined.
C7_FirstRecognizedWins ==
    (PageResolved /\ SomeRecognized) =>
        markets_list = GetMarketDataFromPage(Page(List(<<PageQueries[FirstRecognized]>>)))

\* The payload of the selected entry: None when the entry has no state.
SelectedPayload ==
    LET q == PageQueries[FirstRecognized]
    IN  IF q.state = None THEN None ELSE q.state.data
NonEmptyList(x) == x.t = "list" /\ Len(x.items) > 0

\* The resolved value as C10 words it: the markets field of a mapping that
\* has one, else the mapping itself when it has a conditionId, else a list.
C10_ResolvedAsWorded ==
    LET d == SelectedPayload
    IN  IF d.t = "map" /\ d.markets # None THEN d.markets
        ELSE IF d.t = "map" /\ d.conditionId # None THEN List(<<d>>)
        ELSE IF d.t = "list" THEN d
        ELSE None

\* C10 as worded, on pages whose entries all have a readable key: the result
\* is the value resolved by shape, and it is None exactly when no key is
\* recognized or that value is not a non-empty list.
C10_MarketsFieldAlwaysWins ==
    (PageResolved /\ \A n \in 1..Len(PageQueries) : ~HasUnreadableKey(PageQueries[n])) =>
        IF SomeRecognized /\ NonEmptyList(C10_ResolvedAsWorded)
        THEN markets_list = C10_ResolvedAsWorded
        ELSE markets_list = None

\* C10 amended: a mapping's markets field is the list only when it is truthy;
\* when it is absent or empty, a mapping with a conditionId is wrapped as a
\* one-element list; a list payload is used directly; the result is None
\* exactly when no entry is selected (no recognized key, or an unreadable key
\* before the first recognized one) or the resolved value is not a non-empty
\* list.
C10_ResolvedByShape ==
    PageResolved =>
        IF ~SomeRecognized \/ UnreadableBeforeFirst THEN markets_list = None
        ELSE LET d == SelectedPayload
             IN  /\ (d.t = "map" /\ Truthy(d.markets)) =>
                        markets_list = (IF NonEmptyList(d.markets) THEN d.markets ELSE None)
                 /\ (d.t = "map" /\ ~Truthy(d.markets) /\ d.conditionId # None) =>
                        markets_list = List(<<d>>)
                 /\ (d.t = "map" /\ ~Truthy(d.markets) /\ d.conditionId = None) =>
                        markets_list = None
                 /\ d.t = "list" =>
                        markets_list = (IF NonEmptyList(d) THEN d ELSE None)
                 /\ d.t \notin {"map", "list"} => markets_list = None

\* A mapping with an empty markets list and a conditionId was wrapped.
C10_Witness ==
    /\ PageResolved /\ SomeRecognized /\ ~UnreadableBeforeFirst
    /\ SelectedPayload.t = "map"
    /\ SelectedPayload.markets = List(<<>>)
    /\ SelectedPayload.conditionId # None
    /\ markets_list = List(<<SelectedPayload>>)

(***************************************************************************)
(* Claims about the market records (SpecMarkets)                           *)
(***************************************************************************)
BrowserErrors == {"Error: start", "Error: launch", "Error: new_page", "TimeoutError: goto"}
\* The run got past the browser steps, so the page was read.
PageWasRead == exc = None \/ exc.e \notin BrowserErrors
ListingReturned == prog = "listing" /\ pc = "done" /\ PageWasRead
\* The markets list carried by the first recognized query entry of the page.
RawMarkets == page.queries.items[1].state.data.markets.items
AllMappings == \A k \in 1..Len(RawMarkets) : RawMarkets[k].t = "map"
\* The title is its group title, else its question, else the placeholder.
HasTitle(m) == Truthy(m.groupItemTitle) \/ m.question = None \/ Truthy(m.question)
\* Positions of the raw entries that have a conditionId and a title.
Qualifying == {k \in 1..Len(RawMarkets) : Truthy(RawMarkets[k].conditionId) /\ HasTitle(RawMarkets[k])}

PercentStrings == {Percent(Num(h)) : h \in 0..100}
IsNumericPrice(x) == ~IsRaised(Float(x))
HasTwoPrices(m) == m.outcomePrices.t = "list" /\ Len(m.outcomePrices.items) >= 2
\* outcomePrices is absent, or one of its two prices is not a number.
BadPrices(m) ==
    \/ m.outcomePrices = None
    \/ HasTwoPrices(m) /\ \E k \in 1..2 : ~IsNumericPrice(m.outcomePrices.items[k])
SummaryMade == prog = "holders" /\ final_output.market_info # None

\* C6 as worded: a market whose outcomePrices is absent or holds a
\* non-numeric price has no percentage in either odds field, in the listing
\* and in the holder report's market summary.
C6_BothOddsAreMarkers ==
    /\ (ListingReturned /\ result.t = "list") =>
          \A k \in 1..Len(result.items) :
             LET r == result.items[k]
             IN  BadPrices(RawMarkets[r.index + 1]) =>
                    r.yes_odds \notin PercentStrings /\ r.no_odds \notin PercentStrings
    /\ SummaryMade =>
          (BadPrices(RawMarkets[market_index + 1]) =>
              /\ final_output.market_info.current_yes_odds \notin PercentStrings
              /\ final_output.market_info.current_no_odds \notin PercentStrings)

\* The odds field of one price: N/A without two prices, the percentage of a
\* numeric price, else the marker built from the raw value: Error(<raw>) in
\* the listing, the raw text in the market summary.
OddsField(m, k, listing) ==
    IF ~HasTwoPrices(m) THEN Str("N/A")
    ELSE LET raw == m.outcomePrices.items[k]
         IN  IF IsNumericPrice(raw) THEN Percent(Float(raw))
             ELSE IF listing THEN Str("Error(" \o PyStr(raw) \o ")")
             ELSE Str(PyStr(raw))

\* C6 amended: each odds field follows its own price: both are "N/A" when
\* outcomePrices is absent or no list of two; otherwise the field of a
\* non-numeric price is "Error(<raw>)" in the listing and the raw value's text
\* in the market summary, while the field of a numeric price is still its
\* percentage. No price aborts the extraction: every entry with a
\* conditionId and a title has its record in the listing, and the summary is
\* made for every in-bounds market with a conditionId.
C6_OddsFollowOwnPrice ==
    /\ (ListingReturned /\ result.t = "list") =>
          \A k \in 1..Len(result.items) :
             LET r == result.items[k]
                 m == RawMarkets[r.index + 1]
             IN  /\ r.yes_odds = OddsField(m, 1, TRUE)
                 /\ r.no_odds = OddsField(m, 2, TRUE)
    /\ (ListingReturned /\ Len(RawMarkets) >= 1 /\ AllMappings /\ Qualifying # {}) =>
          /\ result.t = "list"
          /\ {result.items[k].index + 1 : k \in 1..Len(result.items)} = Qualifying
    /\ SummaryMade =>
          LET m == RawMarkets[market_index + 1]
          IN  /\ final_output.market_info.current_yes_odds = OddsField(m, 1, FALSE)
              /\ final_output.market_info.current_no_odds = OddsField(m, 2, FALSE)
    /\ (prog = "holders" /\ pc = "done" /\ PageWasRead
        /\ market_index \in 0..(Len(RawMarkets) - 1)) =>
          LET m == RawMarkets[market_index + 1]
          IN  (m.t = "map" /\ Truthy(m.conditionId)) => SummaryMade

\* A listing of two markets: the first has a non-numeric yes price and keeps
\* the percentage of its no price, the second has both percentages.
C6_Witness ==
    /\ ListingReturned /\ result.t = "list" /\ Len(result.items) = 2
    /\ result.items[1].yes_odds = Str("Error(abc)")
    /\ result.items[1].no_odds = Str("65.0%")
    /\ result.items[2].yes_odds = Str("65.0%")
    /\ result.items[2].no_odds = Str("65.0%")

(***************************************************************************)
(* Claims about the full runs (Spec)                                       *)
(***************************************************************************)
HoldersReturned == prog = "holders" /\ pc = "done"
Resolved == markets_list # None
IndexOutOfBounds == Resolved /\ (market_index < 0 \/ market_index >= Len(markets_list.items))
NoConditionId ==
    /\ Resolved /\ ~IndexOutOfBounds
    /\ ~Truthy(markets_list.items[market_index + 1].conditionId)
HoldersRequested == \E k \in 1..Len(calls) : calls[k].ev = "holders"
HoldersCallFailed == HoldersRequested /\ raw_api_holder_data.t # "list"

\* C2: a run whose market resolution fails, whose index is out of bounds,
\* whose market has no conditionId, or whose holders call fails or answers
\* with no list returns None, never a report; after an out-of-bounds index
\* no holders request and no aggregation is issued.
C2_TerminalFailureReturnsNone ==
    HoldersReturned =>
        /\ (~Resolved \/ IndexOutOfBounds \/ NoConditionId \/ HoldersCallFailed) =>
              result = None
        /\ IndexOutOfBounds => calls = <<>>

\* An index past the last resolved market ended the run with None and no call.
C2_Witness ==
    /\ HoldersReturned
    /\ Resolved /\ Len(markets_list.items) = 2 /\ market_index = 2
    /\ exc = Raised("ValueError: Invalid market index")
    /\ result = None
    /\ calls = <<>>

\* C3: once the holders list is fetched (a list of bucket mappings), no
\* response of a per-holder call aborts the run: it returns a report.
C3_HolderResponsesNeverAbort ==
    (HoldersReturned /\ raw_api_holder_data.t = "list"
     /\ \A k \in 1..Len(raw_api_holder_data.items) : raw_api_holder_data.items[k].t = "map") =>
        result # None

\* The holders of the bucket the side uses: the first bucket mapping whose
\* holders list is non-empty and led by a holder of the side.
LedBy(b, side) ==
    /\ b.t = "map"
    /\ b.holders # None
    /\ Len(b.holders.items) > 0
    /\ b.holders.items[1].outcomeIndex = IntVal(side)
SideBucket(side) ==
    LET bs == raw_api_holder_data.items
        found == {n \in 1..Len(bs) : LedBy(bs[n], side) /\ \A m \in 1..(n - 1) : ~LedBy(bs[m], side)}
    IN  IF found = {} THEN <<>> ELSE bs[CHOOSE n \in found : TRUE].holders.items
Min(a, b) == IF a < b THEN a ELSE b
ReportReturned == HoldersReturned /\ result # None
SideList(side) == result.holders[SideName(side)]

\* C4 as worded: each side's list holds the first min(K, M) holders of its
\* bucket, ranked 1..min(K, M).
C4_FirstKRankedFromOne ==
    ReportReturned =>
        \A side \in {0, 1} :
            LET bucket == SideBucket(side)
                n == Min(max_holders_per_side, Len(bucket))
            IN  /\ Len(SideList(side)) = n
                /\ \A k \in 1..Len(SideList(side)) :
                      /\ SideList(side)[k].rank = k
                      /\ SideList(side)[k].address = bucket[k].proxyWallet

\* C4 amended: in every returned report each side's list holds the first
\* min(K, A) holders of its bucket that have an address, A being the number
\* of such holders, in bucket order; a holder without an address is skipped
\* and not counted; each rank is the holder's position in the bucket, so the
\* ranks increase and are 1..min(K, M) only when no holder before the last
\* one listed lacks an address.
C4_FirstKAddressedByPosition ==
    ReportReturned =>
        \A side \in {0, 1} :
            LET bucket == SideBucket(side)
                addressed == {q \in 1..Len(bucket) : Truthy(bucket[q].proxyWallet)}
            IN  /\ Len(SideList(side)) = Min(max_holders_per_side, Cardinality(addressed))
                /\ \A k \in 1..Len(SideList(side)) :
                      LET e == SideList(side)[k]
                      IN  /\ e.rank \in addressed
                          /\ Cardinality({q \in addressed : q < e.rank}) = k - 1
                          /\ e.address = bucket[e.rank].proxyWallet

\* The Yes bucket starts with a holder without an address: the one listed
\* holder has rank 2.
C4_Witness ==
    /\ ReportReturned
    /\ Len(SideBucket(0)) = 2
    /\ ~Truthy(SideBucket(0)[1].proxyWallet)
    /\ Len(SideList(0)) = 1
    /\ SideList(0)[1].rank = 2

\* C8: when either function has returned, on any path, the browser is not
\* open and the Playwright context is not running.
C8_ReleasedOnEveryExit ==
    (Running /\ pc = "done") => (browser # "open" /\ p_context # "started")

\* The navigation failed with the browser open; the handler closed it.
C8_Witness ==
    /\ Running /\ pc = "done"
    /\ exc = Raised("TimeoutError: goto")
    /\ browser = "closed"
    /\ p_context = "stopped"

\* C9: every aggregation but the first directly follows exactly one sleep,
\* which directly follows the aggregation before it.
C9_OneSleepBetweenAggregations ==
    \A k \in 1..Len(calls) :
        (calls[k].ev = "agg" /\ \E j \in 1..(k - 1) : calls[j].ev = "agg") =>
            /\ calls[k - 1].ev = "sleep"
            /\ calls[k - 2].ev = "agg"

\* The last Yes holder and the first No holder were aggregated with one
\* sleep between them.
C9_Witness ==
    /\ ReportReturned
    /\ Len(SideList(0)) = 1
    /\ Len(SideList(1)) = 1
    /\ calls[2].ev = "agg" /\ calls[3].ev = "sleep" /\ calls[4].ev = "agg"

\* The run was ended by a per-holder aggregation that raised: its call is the
\* last one and no sleep follows it.
AggregationAborted == Len(calls) > 0 /\ calls[Len(calls)].ev = "agg"
NoBucketFor(side) == SideBucket(side) = <<>>
ListResponse == HoldersRequested /\ raw_api_holder_data.t = "list"
AllBucketsMappings ==
    \A k \in 1..Len(raw_api_holder_data.items) : raw_api_holder_data.items[k].t = "map"

\* While a side's holders are processed they are those of the first bucket,
\* in response order, led by a holder of that side.
UsesFirstLedBucket ==
    (prog = "holders" /\ pc = "holder") =>
        outcome_specific_holders = SideBucket(outcome_index)

\* The run returned a report in which every side without a bucket is empty.
ReportsWithEmptySides ==
    /\ result # None
    /\ \A side \in {0, 1} : NoBucketFor(side) => SideList(side) = <<>>

\* C11: each side uses the holders of the first bucket whose leading holder
\* has the side's outcomeIndex, and for every holders response that is a
\* list the run returns a report in which a side without such a bucket has
\* an empty list (runs ended by a per-holder aggregation, C3, set aside).
C11_EveryListResponseReports ==
    /\ UsesFirstLedBucket
    /\ (HoldersReturned /\ ListResponse /\ ~AggregationAborted) => ReportsWithEmptySides

\* C11 on the responses whose buckets are all mappings.
C11_MappingBucketsReport ==
    /\ UsesFirstLedBucket
    /\ (HoldersReturned /\ ListResponse /\ ~AggregationAborted /\ AllBucketsMappings) =>
          ReportsWithEmptySides

\* The second of two buckets led by a Yes holder was not used, and the No
\* side, which has no bucket, is empty in the report.
C11_Witness ==
    /\ ReportReturned
    /\ Len(raw_api_holder_data.items) = 2
    /\ LedBy(raw_api_holder_data.items[1], 0)
    /\ LedBy(raw_api_holder_data.items[2], 0)
    /\ raw_api_holder_data.items[1] # raw_api_holder_data.items[2]
    /\ Len(SideList(0)) = 1
    /\ SideList(1) = <<>>

(***************************************************************************)
(* Claims about the aggregation (SpecProfile)                              *)
(***************************************************************************)
Aggregated == prog = "profile" /\ pc = "done"
\* The sum of the currentValue fields that are JSON numbers, in hundredths.
RECURSIVE NumericSum(_, _)
NumericSum(ps, n) ==
    IF n > Len(ps) THEN 0
    ELSE NumericSum(ps, n + 1)
         + (IF ps[n].t = "map" /\ ps[n].currentValue.t = "num" THEN ps[n].currentValue.v ELSE 0)
\* The volume and profit responses do not end the call themselves.
AmountsPass ==
    \A d \in {volume_data, profit_data} :
        ~(d.t = "list" /\ Len(d.items) > 0 /\ d.items[1].t # "map")

\* C5: for every positions response that is a list the call returns a result
\* whose portfolio value is the sum of the numeric currentValue fields.
C5_PortfolioIsNumericSum ==
    (Aggregated /\ positions_data.t = "list" /\ AmountsPass) =>
        /\ result.t = "map"
        /\ result.portfolio = Money(Num(NumericSum(positions_data.items, 1)))

\* The entries of the positions list that match the target market and side.
Matches ==
    {n \in 1..Len(positions_data.items) :
        /\ positions_data.items[n].t = "map"
        /\ positions_data.items[n].conditionId = target_condition_id
        /\ positions_data.items[n].outcomeIndex = IntVal(target_outcome_index)}
FirstMatch == CHOOSE n \in Matches : \A m \in Matches : n <= m
AllPositionsMappings ==
    \A k \in 1..Len(positions_data.items) : positions_data.items[k].t = "map"

\* The result carries the details of the first matching entry, or the absent
\* marker with the portfolio value reported, and the volume and profit
\* fields of their own responses.
TargetIsFirstMatch ==
    /\ result.t = "map"
    /\ result.target = (IF Matches = {} THEN Str("Not Found")
                        ELSE PositionDetails(positions_data.items[FirstMatch]))
    /\ result.portfolio # Str("Error")
    /\ result.volume = AmountField(volume_data)
    /\ result.pnl = AmountField(profit_data)

\* C12: for every positions list the target position is built from the
\* first entry matching the target conditionId and side, later matches are
\* ignored, and without a match it is the absent marker while portfolio
\* value, volume and profit are still reported (volume and profit responses
\* that end the call themselves, C3, set aside).
C12_FirstMatchForEveryList ==
    (Aggregated /\ positions_data.t = "list" /\ AmountsPass) => TargetIsFirstMatch

\* C12 on the positions lists whose entries are all mappings.
C12_FirstMatchOfMappings ==
    (Aggregated /\ positions_data.t = "list" /\ AmountsPass /\ AllPositionsMappings) =>
        TargetIsFirstMatch

\* Two entries match; the details are those of the first, whose size differs.
C12_Witness ==
    /\ Aggregated /\ positions_data.t = "list" /\ AmountsPass
    /\ Cardinality(Matches) = 2
    /\ positions_data.items[1].size # positions_data.items[2].size
    /\ result.t = "map"
    /\ result.target = PositionDetails(positions_data.items[1])

====
